---- MODULE Spec2Model ----
(***************************************************************************)
(* A model of com_ptr (src/lib.rs): the HResult status wrapper, the        *)
(* hresult() translation helper and the reference-counted ComPtr<T>        *)
(* handle over COM interface pointers.                                     *)
(*                                                                         *)
(* The native side (IUnknown::AddRef / Release / QueryInterface, the       *)
(* object factory, FormatMessageW / LocalFree) is the environment; the     *)
(* wrapper's own code is translated operation by operation.                *)
(***************************************************************************)
EXTENDS Integers, FiniteSets, Sequences, TLC

\* ---------------------------------------------------------------- bounds
NumObjs    == 2      \* native objects the factory may create
MaxHandles == 3      \* ComPtr values ever constructed in one run
NumThreads == 2      \* threads holding handles
MaxVal     == 8      \* candidate payloads 0..MaxVal handed to hresult()
MaxCalls   == 3      \* Display::fmt calls in one run
MaxLen     == 2      \* longest message FormatMessageW returns (UTF-16 units)

\* ------------------------------------------------------ program constants
NULL       == 0                  \* null_mut()
MaxI32     == 2147483647         \* HRESULT is a signed 32-bit integer
MinI32     == -MaxI32 - 1

Objs    == 1..NumObjs
Threads == 1..NumThreads
Main    == 1         \* the thread of a single-threaded run
HIds    == 1..MaxHandles

\* Every object exposes two interface pointers: the one for T the factory
\* hands out and the one for U that QueryInterface hands out.
TAddr(o) == 2 * o - 1
UAddr(o) == 2 * o
Addrs    == 1..(2 * NumObjs)
Obj(a)   == (a + 1) \div 2

\* HRESULT values fed to the model: the i32 boundaries and their neighbours.
Codes    == {MinI32, MinI32 + 1, -1, 0, 1, MaxI32}

VARIABLES
    com,      \* native objects: reference count, times freed, created, supports U, UB seen
    handles,  \* every ComPtr ever constructed: state, address, interface, owner thread
    last,     \* the last wrapper operation: its inputs, its result and the state before it
    hr,       \* hresult(): the arguments drawn and the result computed
    fmt,      \* Display::fmt in progress: status code, buffer pointer, length, result
    heap,     \* native buffers currently allocated by FormatMessageW
    calls     \* Display::fmt calls that returned

vars == <<com, handles, last, hr, fmt, heap, calls>>

\* ------------------------------------------------------------- HResult
is_succeed(code) == code >= 0

is_failed(code) == code < 0

hresult_le(obj, res) ==
    IF res <= 0 THEN [tag |-> "Err", err |-> res] ELSE [tag |-> "Ok", ok |-> obj]

\* pub fn hresult<T>(obj: T, res: HRESULT) -> Result<T, HResult>
hresult(obj, res) ==
    IF res < 0 THEN [tag |-> "Err", err |-> res] ELSE [tag |-> "Ok", ok |-> obj]

\* ------------------------------------------------- native IUnknown (COM)
\* IUnknown::AddRef on a live object is an atomic increment.  On an object
\* that is not alive (never created, or freed) the call is a use after free:
\* undefined behaviour, whose outcomes are a count left alone or changed.
IUnknown_AddRef(c, o) ==
    IF c.rc[o] > 0
    THEN {[c EXCEPT !.rc[o] = @ + 1]}
    ELSE {[c EXCEPT !.ub = TRUE], [c EXCEPT !.ub = TRUE, !.rc[o] = @ + 1]}

\* IUnknown::Release: an atomic decrement; the object frees itself at zero.
IUnknown_Release(c, o) ==
    IF c.rc[o] > 0
    THEN {[c EXCEPT !.rc[o] = @ - 1,
                    !.zeroed[o] = IF c.rc[o] = 1 THEN @ + 1 ELSE @]}
    ELSE {[c EXCEPT !.ub = TRUE], [c EXCEPT !.ub = TRUE, !.rc[o] = @ - 1]}

\* IUnknown::QueryInterface(&U::uuidof(), &mut p), as <<com', res, p>>.
\* An object that supports U increments its count and writes its U pointer
\* with S_OK.  One that does not returns a negative status and leaves p null.
IUnknown_QueryInterface(c, o) ==
    IF c.supports[o]
    THEN {<<c2, 0, UAddr(o)>> : c2 \in IUnknown_AddRef(c, o)}
    ELSE {<<c, res, NULL>> : res \in {MinI32, -1}}

\* The same call on an object that need not follow the COM rules: with its
\* negative status it may write any address to p, without taking a reference.
IUnknown_QueryInterface_Any(c, o) ==
    IUnknown_QueryInterface(c, o)
        \cup (IF c.supports[o] THEN {}
              ELSE {<<c, res, p>> : res \in {MinI32, -1}, p \in Addrs})

\* ---------------------------------------------------------------- ComPtr
from_raw_unchecked(ptr) == [panic |-> FALSE, p |-> ptr]

\* unsafe fn from_raw(ptr): NonNull::new(ptr).expect("ComPtr should not be null.")
from_raw(ptr) ==
    IF ptr = NULL THEN [panic |-> TRUE, p |-> NULL] ELSE [panic |-> FALSE, p |-> ptr]

as_ptr(h) == h.p

add_ref_missing(c, h) == {c}

add_ref_twice(c, h) ==
    UNION {IUnknown_AddRef(c2, Obj(as_ptr(h))) : c2 \in IUnknown_AddRef(c, Obj(as_ptr(h)))}

\* fn add_ref(&self): self.as_unknown().AddRef()
add_ref(c, h) == IUnknown_AddRef(c, Obj(as_ptr(h)))

release_twice(c, h) ==
    UNION {IUnknown_Release(c2, Obj(as_ptr(h))) : c2 \in IUnknown_Release(c, Obj(as_ptr(h)))}

\* fn release(&self): self.as_unknown().Release()
release(c, h) == IUnknown_Release(c, Obj(as_ptr(h)))

\* impl PartialEq: self.as_ptr() == other.as_ptr()
eq(a, b) == as_ptr(a) = as_ptr(b)

cmp_reversed(a, b) ==
    IF as_ptr(a) > as_ptr(b) THEN "Less"
    ELSE IF as_ptr(a) = as_ptr(b) THEN "Equal" ELSE "Greater"

\* impl Ord: self.as_ptr().cmp(&other.as_ptr())
cmp(a, b) ==
    IF as_ptr(a) < as_ptr(b) THEN "Less"
    ELSE IF as_ptr(a) = as_ptr(b) THEN "Equal" ELSE "Greater"

\* impl PartialOrd: self.as_ptr().partial_cmp(&other.as_ptr()), always Some
partial_cmp(a, b) ==
    <<"Some", IF as_ptr(a) < as_ptr(b) THEN "Less"
              ELSE IF as_ptr(a) = as_ptr(b) THEN "Equal" ELSE "Greater">>

\* a <= b as Rust derives it from partial_cmp
le(a, b) == partial_cmp(a, b) \in {<<"Some", "Less">>, <<"Some", "Equal">>}

\* ------------------------------------------------------- handle bookkeeping
NoHandle == [st |-> "Uninit", p |-> NULL, iface |-> "-", owner |-> 0, rel |-> 0]

Live(i) == handles[i].st = "Live"

LiveOn(o) == {i \in HIds : Live(i) /\ Obj(handles[i].p) = o}

LiveIds == {i \in HIds : Live(i)}

Fresh == {i \in HIds : handles[i].st = "Uninit"}

\* The slot the next constructed ComPtr takes.
NextId == CHOOSE i \in Fresh : \A j \in Fresh : i <= j

NoOp == [op |-> "none", h |-> 0, ret |-> "-", code |-> 0, newh |-> 0, out |-> NULL,
         rcPre |-> [o \in Objs |-> 0], srcPre |-> NoHandle]

Op(name, h, ret, code, newh, out) ==
    [op |-> name, h |-> h, ret |-> ret, code |-> code, newh |-> newh, out |-> out,
     rcPre |-> com.rc, srcPre |-> IF h = 0 THEN NoHandle ELSE handles[h]]

NewHandle(t, p, iface) == [st |-> "Live", p |-> p, iface |-> iface, owner |-> t, rel |-> 0]

Idle == [pc |-> "idle", code |-> 0, p |-> NULL, len |-> 0, ret |-> "-", frees |-> 0]

Others == <<hr, fmt, heap, calls>>

\* Once a call on a dead object has happened the program's behaviour is
\* undefined; nothing further is modelled.
Defined == ~com.ub


\* ---------------------------------------------------------- construction
\* What a factory closure can hand to ComPtr::new: an error of its own, a
\* null address with success, or the T pointer of the object it created.
OkAddr(o) == [tag |-> "Ok", ok |-> TAddr(o)]

FactoryResults(o) ==
    {[tag |-> "Err", err |-> e] : e \in {MinI32, -1}}
        \cup {[tag |-> "Ok", ok |-> NULL], OkAddr(o)}

\* The object a successful factory call creates: the first one not yet used.
Uncreated == {o \in Objs : ~com.created[o]}

NextObj == CHOOSE o \in Uncreated : \A q \in Uncreated : o <= q

\* The native allocation: the new object starts with one reference, owned
\* by whoever receives the address.
Created(c, o, sup) ==
    [c EXCEPT !.rc[o] = 1, !.created[o] = TRUE, !.supports[o] = sup]

\* Ok(ComPtr::from_raw(f()?)) applied to the closure's result.
new(fres) ==
    IF fres.tag = "Err" THEN [tag |-> "Err", err |-> fres.err]
    ELSE LET w == from_raw(fres.ok)
         IN IF w.panic THEN [tag |-> "Panic"] ELSE [tag |-> "Ok", ok |-> w]

\* The state change of a constructor whose closure returned fres.
Construct(name, t, fres, sup) ==
    LET r == new(fres)
        made == fres.tag = "Ok" /\ fres.ok # NULL
    IN /\ com' = IF made THEN Created(com, NextObj, sup) ELSE com
       /\ IF r.tag = "Ok"
          THEN /\ handles' = [handles EXCEPT ![NextId] = NewHandle(t, r.ok.p, "T")]
               /\ last' = Op(name, 0, "Ok", 0, NextId, fres.ok)
          ELSE /\ handles' = handles
               /\ last' = Op(name, 0, r.tag, IF r.tag = "Err" THEN r.err ELSE 0, 0,
                             IF fres.tag = "Ok" THEN fres.ok ELSE NULL)
       /\ UNCHANGED Others

\* pub fn new<F, E>(f: F) -> Result<ComPtr<T>, E>
New(t, fres, sup) ==
    /\ Defined /\ Fresh # {} /\ Uncreated # {}
    /\ fres \in FactoryResults(NextObj)
    /\ Construct("new", t, fres, sup)

\* pub fn co_create_instance<T>(clsid, outer, clsctx): ComPtr::new over a
\* closure that returns hresult(obj, res) for CoCreateInstance's outcome.
co_create_instance(t, res, obj, sup) ==
    /\ Defined /\ Fresh # {} /\ Uncreated # {}
    /\ obj \in {NULL, TAddr(NextObj)}
    /\ (res < 0) => obj = NULL
    /\ Construct("co_create_instance", t, hresult(obj, res), sup)

\* pub unsafe fn from_raw(ptr), called directly: the caller hands over the
\* one reference it holds on a freshly obtained object, or passes null.
FromRaw(t, ptr, sup) ==
    /\ Defined /\ Fresh # {} /\ Uncreated # {}
    /\ ptr \in {NULL, TAddr(NextObj)}
    /\ LET w == from_raw(ptr)
       IN /\ com' = IF ptr # NULL THEN Created(com, NextObj, sup) ELSE com
          /\ IF w.panic
             THEN /\ handles' = handles
                  /\ last' = Op("from_raw", 0, "Panic", 0, 0, ptr)
             ELSE /\ handles' = [handles EXCEPT ![NextId] = NewHandle(t, w.p, "T")]
                  /\ last' = Op("from_raw", 0, "Ok", 0, NextId, ptr)
    /\ UNCHANGED Others

\* ------------------------------------------------------- clone, drop, send
\* impl Clone: self.add_ref(); ComPtr { p: self.p.clone() }
Clone(t, h) ==
    /\ Defined /\ Live(h) /\ handles[h].owner = t
    /\ Fresh # {}
    /\ com' \in add_ref(com, handles[h])
    /\ handles' = [handles EXCEPT
                     ![NextId] = NewHandle(t, handles[h].p, handles[h].iface)]
    /\ last' = Op("clone", h, "Ok", 0, NextId, handles[h].p)
    /\ UNCHANGED Others

\* impl Drop: self.release().  Rust runs it once, when the value dies.
Drop(t, h) ==
    /\ Defined /\ Live(h) /\ handles[h].owner = t
    /\ com' \in release(com, handles[h])
    /\ handles' = [handles EXCEPT ![h].st = "Released", ![h].owner = 0, ![h].rel = @ + 1]
    /\ last' = Op("drop", h, "Ok", 0, 0, handles[h].p)
    /\ UNCHANGED Others

\* unsafe impl Send: a handle may be moved to another thread.
Send(t, h, t2) ==
    /\ Defined /\ Live(h) /\ handles[h].owner = t /\ t2 # t
    /\ handles' = [handles EXCEPT ![h].owner = t2]
    /\ last' = Op("send", h, "Ok", 0, 0, handles[h].p)
    /\ UNCHANGED <<com, hr, fmt, heap, calls>>

\* -------------------------------------------------------- query_interface
query_interface_extra_ref(t, h, n) ==
    /\ Defined /\ Live(h) /\ handles[h].owner = t
    /\ LET c1 == n[1]
           res == n[2]
           p == n[3]
           w == from_raw(p)
           r == hresult(w, res)
       IN IF w.panic
            THEN /\ com' = c1
                 /\ handles' = handles
                 /\ last' = Op("query_interface", h, "Panic", res, 0, p)
            ELSE IF r.tag = "Ok"
            THEN /\ Fresh # {}
                 /\ com' \in add_ref(c1, r.ok)
                 /\ handles' = [handles EXCEPT ![NextId] = NewHandle(t, r.ok.p, "U")]
                 /\ last' = Op("query_interface", h, "Ok", res, NextId, p)
            ELSE /\ com' \in release(c1, w)
                 /\ handles' = handles
                 /\ last' = Op("query_interface", h, "Err", r.err, 0, p)
    /\ UNCHANGED Others

\* pub fn query_interface<U>(&self) -> Result<ComPtr<U>, HResult>:
\*     let mut p = null_mut();
\*     let res = self.as_unknown().QueryInterface(&U::uuidof(), &mut p);
\*     hresult(ComPtr::from_raw(p as *mut U), res)
\* The argument ComPtr::from_raw(p) is evaluated before hresult looks at
\* res; on hresult's Err branch the ComPtr it was given is dropped.
query_interface(t, h, n) ==
    /\ Defined /\ Live(h) /\ handles[h].owner = t
    /\ LET c1 == n[1]
           res == n[2]
           p == n[3]
           w == from_raw(p)
           r == hresult(w, res)
       IN IF w.panic
            THEN /\ com' = c1
                 /\ handles' = handles
                 /\ last' = Op("query_interface", h, "Panic", res, 0, p)
            ELSE IF r.tag = "Ok"
            THEN /\ Fresh # {}
                 /\ com' = c1
                 /\ handles' = [handles EXCEPT ![NextId] = NewHandle(t, r.ok.p, "U")]
                 /\ last' = Op("query_interface", h, "Ok", res, NextId, p)
            ELSE /\ com' \in release(c1, w)
                 /\ handles' = handles
                 /\ last' = Op("query_interface", h, "Err", r.err, 0, p)
    /\ UNCHANGED Others

\* ---------------------------------------------------------- Display::fmt
\* fmt() is entered for a status code.
FmtCall(code) ==
    /\ fmt.pc = "idle" /\ calls < MaxCalls
    /\ fmt' = [Idle EXCEPT !.pc = "start", !.code = code]
    /\ UNCHANGED <<com, handles, last, hr, heap, calls>>

\* FormatMessageW(ALLOCATE_BUFFER | FROM_SYSTEM, null, self.0 as u32, ..):
\* on success it allocates the buffer, stores it in p and returns the
\* length; on failure it returns 0 and p stays null.
FormatMessage ==
    /\ fmt.pc = "start"
    /\ \/ \E len \in 1..MaxLen :
            LET b == CHOOSE x \in 1..(Cardinality(heap) + 1) : x \notin heap
            IN /\ heap' = heap \cup {b}
               /\ fmt' = [fmt EXCEPT !.pc = "formatted", !.p = b, !.len = len]
       \/ /\ heap' = heap
          /\ fmt' = [fmt EXCEPT !.pc = "formatted", !.p = NULL, !.len = 0]
    /\ UNCHANGED <<com, handles, last, hr, calls>>

\* slice::from_raw_parts(p, len) and write!(f, "{}", from_utf16_lossy(..)).
\* A null p makes from_raw_parts undefined: the build either goes on with
\* an empty slice or stops at the library's precondition check.
WriteMessage ==
    /\ fmt.pc = "formatted"
    /\ \/ \E ret \in {"Ok", "Err"} : fmt' = [fmt EXCEPT !.pc = "written", !.ret = ret]
       \/ /\ fmt.p = NULL
          /\ fmt' = [fmt EXCEPT !.pc = "aborted"]
    /\ UNCHANGED <<com, handles, last, hr, heap, calls>>

LocalFreeOnOk ==
    /\ fmt.pc = "written"
    /\ IF fmt.ret = "Ok" /\ fmt.p # NULL
       THEN /\ heap' = heap \ {fmt.p}
            /\ fmt' = [fmt EXCEPT !.pc = "freed", !.frees = @ + 1]
       ELSE /\ heap' = heap
            /\ fmt' = [fmt EXCEPT !.pc = "freed"]
    /\ UNCHANGED <<com, handles, last, hr, calls>>

\* LocalFree(p as _): unconditional; LocalFree(NULL) does nothing.
LocalFree ==
    /\ fmt.pc = "written"
    /\ IF fmt.p # NULL
       THEN /\ heap' = heap \ {fmt.p}
            /\ fmt' = [fmt EXCEPT !.pc = "freed", !.frees = @ + 1]
       ELSE /\ heap' = heap
            /\ fmt' = [fmt EXCEPT !.pc = "freed"]
    /\ UNCHANGED <<com, handles, last, hr, calls>>

\* fmt() returns ret.
FmtReturn ==
    /\ fmt.pc = "freed"
    /\ fmt' = [fmt EXCEPT !.pc = "idle"]
    /\ calls' = calls + 1
    /\ UNCHANGED <<com, handles, last, hr, heap>>

\* --------------------------------------------------------------- hresult
Vals == 0..MaxVal \cup {42}

NoResult == [tag |-> "-"]

\* hresult(obj, res) is applied to the arguments drawn.
Translate ==
    /\ hr.out = NoResult
    /\ hr' = [hr EXCEPT !.out = hresult(hr.obj, hr.res),
                        !.succeed = is_succeed(hr.res),
                        !.failed = is_failed(hr.res)]
    /\ UNCHANGED <<com, handles, last, fmt, heap, calls>>

\* -------------------------------------------------------- specifications
NoCall == [obj |-> 0, res |-> 0, out |-> NoResult, succeed |-> FALSE, failed |-> FALSE]

InitCom ==
    /\ com = [rc |-> [o \in Objs |-> 0], zeroed |-> [o \in Objs |-> 0],
              created |-> [o \in Objs |-> FALSE], supports |-> [o \in Objs |-> FALSE],
              ub |-> FALSE]
    /\ handles = [i \in HIds |-> NoHandle]
    /\ last = NoOp
    /\ fmt = Idle
    /\ heap = {}
    /\ calls = 0

Init == InitCom /\ hr = NoCall

\* Every operation of the handle, as one thread calls them, against native
\* objects that follow the COM rules.
Next ==
    LET t == Main
    IN \/ \E o \in Objs, sup \in BOOLEAN : \E fres \in FactoryResults(o) : New(t, fres, sup)
       \/ \E res \in {MinI32, 0, 1}, obj \in {NULL} \cup Addrs, sup \in BOOLEAN :
              co_create_instance(t, res, obj, sup)
       \/ \E ptr \in {NULL} \cup Addrs, sup \in BOOLEAN : FromRaw(t, ptr, sup)
       \/ \E h \in HIds : Clone(t, h)
       \/ \E h \in HIds : Drop(t, h)
       \/ \E h \in LiveIds :
              \E n \in IUnknown_QueryInterface(com, Obj(handles[h].p)) :
                  query_interface(t, h, n)

Spec == Init /\ [][Next]_vars

\* The same operations against objects that need not follow the COM rules.
NextAnyNative ==
    LET t == Main
    IN \/ \E o \in Objs, sup \in BOOLEAN : New(t, OkAddr(o), sup)
       \/ \E h \in HIds : Clone(t, h)
       \/ \E h \in HIds : Drop(t, h)
       \/ \E h \in LiveIds :
              \E n \in IUnknown_QueryInterface_Any(com, Obj(handles[h].p)) :
                  query_interface(t, h, n)

SpecAnyNative == Init /\ [][NextAnyNative]_vars

\* Handles obtained from a factory that succeeded, then cloned, moved and
\* dropped by the threads that own them.
NextLife ==
    \E t \in Threads :
        \/ \E o \in Objs, sup \in BOOLEAN : New(t, OkAddr(o), sup)
        \/ \E h \in HIds : Clone(t, h)
        \/ \E h \in HIds : Drop(t, h)
        \/ \E h \in HIds, t2 \in Threads : Send(t, h, t2)

SpecLife == Init /\ [][NextLife]_vars

InitHr ==
    /\ InitCom
    /\ \E v \in Vals, c \in Codes : hr = [NoCall EXCEPT !.obj = v, !.res = c]

NextHr == Translate

SpecHr == InitHr /\ [][NextHr]_vars

NextFmt ==
    \/ \E code \in Codes : FmtCall(code)
    \/ FormatMessage
    \/ WriteMessage
    \/ LocalFree
    \/ FmtReturn

SpecFmt == Init /\ [][NextFmt]_vars


\* ------------------------------------------------------------- properties
CtorOps == {"new", "co_create_instance", "from_raw"}

Released(i) == handles[i].st = "Released"

\* C1: query_interface on a live handle whose object does not support U
\* (negative status, output address left null) returns Err carrying that
\* status, and the caller receives no handle.
C1_QueryFailureReturnsErr ==
    (last.op = "query_interface" /\ last.code < 0 /\ last.out = NULL)
        => (last.ret = "Err" /\ last.newh = 0)

\* C2: once every handle on an object has been dropped its count is zero
\* and reached zero exactly once; every handle decremented exactly once; the
\* count never went below zero and was never touched after reaching zero.
C2_AllDroppedZeroOnce ==
    /\ ~com.ub
    /\ \A o \in Objs : com.rc[o] >= 0 /\ com.zeroed[o] <= 1
    /\ \A i \in HIds : handles[i].rel = IF Released(i) THEN 1 ELSE 0
    /\ \A o \in Objs :
         (com.created[o] /\ LiveOn(o) = {}) => (com.rc[o] = 0 /\ com.zeroed[o] = 1)

C2_Witness ==
    \E o \in Objs :
        /\ com.created[o] /\ LiveOn(o) = {} /\ com.zeroed[o] = 1
        /\ Cardinality({i \in HIds : Released(i) /\ Obj(handles[i].p) = o}) >= 2

\* C3: clone never fails, raises the object's count by exactly one, yields a
\* new live handle with the original's address, and leaves the original
\* live and unchanged.
C3_CloneAddsOne ==
    last.op = "clone" =>
        LET o == Obj(last.srcPre.p)
        IN /\ last.ret = "Ok"
           /\ ~com.ub
           /\ com.rc = [last.rcPre EXCEPT ![o] = @ + 1]
           /\ last.newh # 0 /\ last.newh # last.h
           /\ Live(last.newh)
           /\ as_ptr(handles[last.newh]) = as_ptr(last.srcPre)
           /\ last.srcPre.st = "Live"
           /\ handles[last.h] = last.srcPre

C3_Witness ==
    /\ last.op = "clone" /\ Live(last.h) /\ Live(last.newh)
    /\ com.rc[Obj(last.srcPre.p)] = 3

\* C4: a constructor given a null address with success panics: it returns
\* neither a handle nor an Err, and no handle ever holds a null address.
C4_NullAddressPanics ==
    /\ (last.op \in CtorOps /\ last.out = NULL /\ last.code >= 0)
           => (last.ret = "Panic" /\ last.newh = 0)
    /\ \A i \in HIds : handles[i].st # "Uninit" => handles[i].p # NULL

C4_Witness ==
    /\ last.op = "new" /\ last.out = NULL /\ last.code >= 0 /\ last.ret = "Panic"
    /\ \E i \in HIds : Live(i)

\* C5: query_interface on a live handle whose object supports U returns Ok
\* with a new live handle of non-null address on the same object; the count
\* is higher by exactly one and the originating handle is unchanged.
C5_QuerySuccess ==
    (last.op = "query_interface" /\ com.supports[Obj(last.srcPre.p)]) =>
        LET o == Obj(last.srcPre.p)
        IN /\ last.ret = "Ok" /\ last.code >= 0
           /\ last.newh # 0 /\ last.newh # last.h
           /\ Live(last.newh)
           /\ handles[last.newh].p # NULL
           /\ Obj(handles[last.newh].p) = o
           /\ com.rc = [last.rcPre EXCEPT ![o] = @ + 1]
           /\ handles[last.h] = last.srcPre /\ Live(last.h)

C5_Witness ==
    /\ last.op = "query_interface" /\ last.ret = "Ok"
    /\ Live(last.h) /\ Live(last.newh)
    /\ handles[last.newh].iface = "U"
    /\ com.rc[Obj(last.srcPre.p)] = 2

\* C6: hresult(value, code) is Ok(value) for every code >= 0 and Err(code)
\* for every code < 0; is_succeed is code >= 0 and is_failed is code < 0.
C6_Translate ==
    hr.out.tag # "-" =>
        /\ hr.res >= 0 => (hr.out.tag = "Ok" /\ hr.out.ok = hr.obj)
        /\ hr.res < 0 => (hr.out.tag = "Err" /\ hr.out.err = hr.res)
        /\ hr.succeed = (hr.res >= 0)
        /\ hr.failed = (hr.res < 0)

C6_Witness == hr.out.tag = "Ok" /\ hr.res = 0 /\ hr.obj = 42

\* C7: under every interleaving of the threads' clones and drops, each
\* object's count equals the number of live handles on it, and no live
\* handle refers to a freed object.
C7_CountEqualsLiveHandles ==
    /\ \A o \in Objs : com.rc[o] = Cardinality(LiveOn(o))
    /\ \A o \in Objs : com.zeroed[o] > 0 => LiveOn(o) = {}
    /\ \A i \in HIds : Live(i) => com.rc[Obj(handles[i].p)] > 0
    /\ ~com.ub

C7_Witness ==
    \E i, j, k \in HIds :
        /\ Live(i) /\ Live(j) /\ Released(k)
        /\ handles[i].p = handles[j].p /\ handles[k].p = handles[i].p
        /\ handles[i].owner # handles[j].owner

\* C8: every fmt call frees the buffer it obtained exactly once before it
\* returns, whether the write succeeded or failed; no buffer stays allocated.
C8_BufferFreedOnce ==
    /\ fmt.frees <= 1
    /\ fmt.pc \in {"idle", "start", "freed"} => heap = {}
    /\ (fmt.pc \in {"idle", "freed"} /\ fmt.p # NULL) => fmt.frees = 1

C8_Witness ==
    fmt.pc = "idle" /\ calls = 2 /\ fmt.p # NULL /\ fmt.ret = "Err" /\ fmt.frees = 1

\* C9: for live handles of the same interface type, == is equality of the
\* addresses and cmp / partial_cmp follow the numeric order of the
\* addresses; every handle is == and <= itself.
C9_CompareByAddress ==
    \A i, j \in HIds :
        (Live(i) /\ Live(j) /\ handles[i].iface = handles[j].iface) =>
            LET a == handles[i]
                b == handles[j]
            IN /\ eq(a, b) <=> (a.p = b.p)
               /\ (cmp(a, b) = "Less") <=> (a.p < b.p)
               /\ (cmp(a, b) = "Equal") <=> (a.p = b.p)
               /\ (cmp(a, b) = "Greater") <=> (a.p > b.p)
               /\ partial_cmp(a, b) = <<"Some", cmp(a, b)>>
               /\ le(a, b) <=> (a.p <= b.p)
               /\ eq(a, a) /\ le(a, a)

C9_Witness ==
    \E i, j, k \in HIds :
        /\ i # j /\ Live(i) /\ Live(j) /\ Live(k)
        /\ handles[i].iface = handles[j].iface /\ handles[i].iface = handles[k].iface
        /\ handles[i].p = handles[j].p
        /\ handles[i].p < handles[k].p
        /\ Obj(handles[i].p) = Obj(handles[k].p) => FALSE

\* C10: a query_interface call that fails leaves every object's reference
\* count as it was, whatever address came back with the negative status.
C10_FailedQueryKeepsCounts ==
    (last.op = "query_interface" /\ last.code < 0) => com.rc = last.rcPre

====
